---- MODULE Spec2Model ----
(***************************************************************************)
(* C_Pointer_Lab: the heap, the pointer variables and the function-pointer *)
(* tables of the repository's C programs and snippets.                     *)
(*                                                                         *)
(* A heap block is unalloc, live or freed; a block id is never handed out  *)
(* twice, so a pointer to a freed block stays recognisable.  A pointer     *)
(* value is NULL or a block id.  Each program of the notes is a sequence   *)
(* of statements (code) run from pc = 1, the driver's being its script;    *)
(* every dereference, free and realloc is logged in events with what its   *)
(* target was at that moment.  Undefined behaviour (an access to NULL, to  *)
(* a freed block or past the end of a block, a call through a null         *)
(* function pointer) is logged and then either crashes the program or      *)
(* lets it go on.  stale holds the variables whose value was handed to a   *)
(* realloc that succeeded, released the variables last written by          *)
(* SAFER_FREE.  A local object of a function is a block too, dead once the *)
(* function has returned.  The dispatch functions run on opcode, num2 and  *)
(* num3 with the table operations (inits counts its initialisations);      *)
(* runWorkflow runs on wf, and arg is the size handed to                   *)
(* allocateArray_heap with the width of size_t of the build.               *)
(***************************************************************************)
EXTENDS Integers, Sequences, FiniteSets, TLC

VARIABLES prog, script, pc, status, ret, env, heap, stale, released, events,
          opcode, num2, num3, operations, inits, called, result, calls,
          wf, arg

vars == <<prog, script, pc, status, ret, env, heap, stale, released, events,
          opcode, num2, num3, operations, inits, called, result, calls,
          wf, arg>>

heapVars == <<script, pc, status, ret, env, heap, stale, released, events>>
dispatchVars ==
    <<opcode, num2, num3, operations, inits, called, result, calls, wf, arg>>

\* ------------------------------------------------------------------ bounds
\* Heap blocks the allocator can hand out before it is exhausted.
MaxBlocks == 3
\* Statements of a driver program (any sequence of calls on two handles).
MaxOps == 3
\* Operands of the dispatch functions range over -MaxNum..MaxNum.
MaxNum == 2
\* Calls of initializeOperationsArray a caller makes (inits counts them).
MaxInits == 2
\* Elements past the end of steps[] that runWorkflow is followed through.
MaxOob == 1
\* Width of int in bits, scaled down; size_t is as wide (as on ILP32
\* builds) or twice as wide (as on LP64 builds).
IntBits == 4

\* --------------------------------------------------------- program constants
NULL == 0
SizeofInt == 4
\* sizeof of a data pointer; struct person is two of them (name, scores)
SizeofPtr == 8
TableSize == 128
\* WorkflowStep steps[3]
StepsSize == 3

Blocks == 1..MaxBlocks
VarNames == {"pi", "p", "q", "v", "a", "b", "arr", "temp", "tmp",
             "string1", "string2", "heap_ptr", "vector", "pv",
             "local_var", "sp"}
\* saferFreeImpl(NULL): no pointer variable behind pp.
NoRef == "NULL"

\* ------------------------------------------------------------------- memory
\* A cell of a block: <<>> while indeterminate, <<v>> once v is stored.
Indet == <<>>
Val(v) == <<v>>
Fill(n, c) == [i \in 1..n |-> c]
Resize(data, n) == [i \in 1..n |-> IF i <= Len(data) THEN data[i] ELSE Indet]

Unalloc == [st |-> "unalloc", bytes |-> 0, data |-> <<>>]
HasRoom(h) == \E b \in Blocks : h[b].st = "unalloc"
FreshBlock(h) ==
    CHOOSE b \in Blocks :
        /\ h[b].st = "unalloc"
        /\ \A c \in Blocks : h[c].st = "unalloc" => b <= c

\* What an access of n cells of width cell at offset off through p targets.
Why(h, p, off, n, cell) ==
    IF p = NULL THEN "null"
    ELSE IF h[p].st = "dead" THEN "dead"
    ELSE IF h[p].st # "live" THEN "freed"
    ELSE IF (off + n) * cell > h[p].bytes THEN "oob"
    ELSE "ok"

\* malloc(bytes): NULL, or a fresh block of indeterminate content.
malloc(h, bytes, cell) ==
    {[ptr |-> NULL, heap |-> h]} \cup
    (IF HasRoom(h)
     THEN {[ptr |-> FreshBlock(h),
            heap |-> [h EXCEPT ![FreshBlock(h)] =
                        [st |-> "live", bytes |-> bytes,
                         data |-> Fill(bytes \div cell, Indet)]]]}
     ELSE {})

\* calloc(n, size): NULL, or a fresh block of n zeroed elements.
calloc(h, n, size) ==
    {[ptr |-> NULL, heap |-> h]} \cup
    (IF HasRoom(h)
     THEN {[ptr |-> FreshBlock(h),
            heap |-> [h EXCEPT ![FreshBlock(h)] =
                        [st |-> "live", bytes |-> n * size,
                         data |-> Fill(n, Val(0))]]]}
     ELSE {})

\* free(p): nothing for NULL, releases a live block; a block that is not live
\* is left as it is (the caller logs the undefined behaviour).
free(h, p) ==
    IF p # NULL /\ h[p].st = "live" THEN [h EXCEPT ![p].st = "freed"] ELSE h

\* realloc whose failure releases the block it was given.
reallocFailFrees(h, p, bytes, cell) ==
    IF p = NULL THEN malloc(h, bytes, cell)
    ELSE IF h[p].st # "live" THEN {[ptr |-> NULL, heap |-> h]}
    ELSE {[ptr |-> NULL, heap |-> free(h, p)]}
         \cup {[ptr |-> p,
                heap |-> [h EXCEPT ![p].bytes = bytes,
                                   ![p].data = Resize(@, bytes \div cell)]]}

\* realloc(p, bytes): like malloc for NULL, like free for 0 bytes; otherwise it
\* fails (NULL, the block untouched), resizes in place, or moves the block
\* (new block, content copied, old block freed).
realloc(h, p, bytes, cell) ==
    IF p = NULL THEN malloc(h, bytes, cell)
    ELSE IF h[p].st # "live" THEN {[ptr |-> NULL, heap |-> h]}
    ELSE IF bytes = 0 THEN {[ptr |-> NULL, heap |-> free(h, p)]}
    ELSE {[ptr |-> NULL, heap |-> h]}
         \cup {[ptr |-> p,
                heap |-> [h EXCEPT ![p].bytes = bytes,
                                   ![p].data = Resize(@, bytes \div cell)]]}
         \cup (IF HasRoom(h)
               THEN {[ptr |-> FreshBlock(h),
                      heap |-> [h EXCEPT
                          ![FreshBlock(h)] =
                              [st |-> "live", bytes |-> bytes,
                               data |-> Resize(h[p].data, bytes \div cell)],
                          ![p].st = "freed"]]}
               ELSE {})

\* saferFreeImpl without its free call: the handle is nulled, the block leaks.
saferFreeImplLeak(pp, e, h) ==
    IF pp # NoRef /\ e[pp] # NULL
    THEN [env |-> [e EXCEPT ![pp] = NULL], heap |-> h, freed |-> NULL]
    ELSE [env |-> e, heap |-> h, freed |-> NULL]

\* saferFreeImpl without "*pp = NULL": plain free, the handle dangles.
saferFreeImplDangling(pp, e, h) ==
    IF pp # NoRef /\ e[pp] # NULL
    THEN [env |-> e, heap |-> free(h, e[pp]), freed |-> e[pp]]
    ELSE [env |-> e, heap |-> h, freed |-> NULL]

\* saferFreeImpl nulling every variable that holds the freed address.
saferFreeImplNullsAliases(pp, e, h) ==
    IF pp # NoRef /\ e[pp] # NULL
    THEN [env |-> [x \in DOMAIN e |-> IF e[x] = e[pp] THEN NULL ELSE e[x]],
          heap |-> free(h, e[pp]), freed |-> e[pp]]
    ELSE [env |-> e, heap |-> h, freed |-> NULL]

\* saferFreeImpl(pp): frees *pp and nulls it when pp and *pp are non-null.
\* freed is the pointer passed to free (NULL when free is not called).
saferFreeImpl(pp, e, h) ==
    IF pp # NoRef /\ e[pp] # NULL
    THEN [env |-> [e EXCEPT ![pp] = NULL], heap |-> free(h, e[pp]),
          freed |-> e[pp]]
    ELSE [env |-> e, heap |-> h, freed |-> NULL]

\* --------------------------------------------------------------- statements
\* One statement of a program; every statement carries every field.
Ins(op, dst, src, bytes, cell, off, n, vals, tgt) ==
    [op |-> op, dst |-> dst, src |-> src, bytes |-> bytes, cell |-> cell,
     off |-> off, n |-> n, vals |-> vals, tgt |-> tgt]

\* dst = malloc(bytes), the block seen as cells of width cell
Malloc(dst, bytes, cell) == Ins("malloc", dst, dst, bytes, cell, 0, 0, <<>>, 0)
\* dst = calloc(n, cell)
Calloc(dst, n, cell) == Ins("calloc", dst, dst, n * cell, cell, 0, n, <<>>, 0)
\* dst = realloc(src, bytes)
Realloc(dst, src, bytes, cell) ==
    Ins("realloc", dst, src, bytes, cell, 0, 0, <<>>, 0)
\* free(src)
Free(src) == Ins("free", src, src, 0, 1, 0, 0, <<>>, 0)
\* SAFER_FREE(src), that is saferFreeImpl((void **)&(src))
SaferFree(src) == Ins("saferfree", src, src, 0, 1, 0, 0, <<>>, 0)
\* dst[off + i] = vals[i + 1] for i in 0..Len(vals)-1
Store(dst, cell, off, vals) ==
    Ins("store", dst, dst, 0, cell, off, Len(vals), vals, 0)
\* a read of src[off .. off + n - 1]
Load(src, cell, off, n) == Ins("load", src, src, 0, cell, off, n, <<>>, 0)
\* if (src == NULL) goto tgt
BrNull(src, tgt) == Ins("brnull", src, src, 0, 1, 0, 0, <<>>, tgt)
\* dst = src
Assign(dst, src) == Ins("assign", dst, src, 0, 1, 0, 0, <<>>, 0)
\* dst = NULL
SetNull(dst) == Ins("setnull", dst, dst, 0, 1, 0, 0, <<>>, 0)
\* dst->field = malloc(bytes), field being the off-th member of *dst
MallocField(dst, off, bytes, cell) ==
    Ins("mallocfield", dst, dst, bytes, cell, off, 0, <<>>, 0)
\* free(src->field), field being the off-th member of *src
FreeField(src, off) == Ins("freefield", src, src, 0, 1, off, 0, <<>>, 0)
\* int dst[n] (or int dst): a local object of the running function, dst
\* standing for its address
Local(dst, n, cell) == Ins("local", dst, dst, n * cell, cell, 0, n, <<>>, 0)
\* the function returns: its pointer variable (parameter or local) dst ends
LeaveVar(dst) == Ins("leave", dst, dst, 0, 1, 0, 0, <<>>, 0)
\* the function returns: the lifetime of its local object dst ends
LeaveObject(dst) == Ins("leave", dst, dst, 0, 1, 0, 1, <<>>, 0)
\* return n (also the end of a snippet)
Return(n) == Ins("return", "pi", "pi", 0, 1, 0, n, <<>>, 0)

\* "0123456789AB" with its terminator, as character codes
Str0123456789AB == <<48, 49, 50, 51, 52, 53, 54, 55, 56, 57, 65, 66, 0>>

\* ----------------------------------------------------------------- programs
\* demo_safer_free.c
demo_safer_free ==
    << Malloc("pi", SizeofInt, SizeofInt),
       BrNull("pi", 8),
       Store("pi", SizeofInt, 0, <<5>>),
       Load("pi", SizeofInt, 0, 1),
       SaferFree("pi"),
       SaferFree("pi"),
       Return(0),
       Return(1) >>

\* The unit-test style snippets of SAFER_FREE
unit_tests ==
    << SetNull("p"),
       SaferFree("p"),
       Malloc("q", 16, 1),
       SaferFree("q"),
       SaferFree("q"),
       Malloc("v", 10 * SizeofInt, SizeofInt),
       Store("v", SizeofInt, 0, <<0, 1, 2, 3, 4, 5, 6, 7, 8, 9>>),
       SaferFree("v"),
       Return(0) >>

\* "Assuming aliases are nulled": a and b own the same block
alias_example ==
    << Malloc("a", 4, 1),
       Assign("b", "a"),
       SaferFree("a"),
       Return(0) >>

\* The same snippet with realloc's result assigned straight to arr.
realloc_temp_direct ==
    << Malloc("arr", 5 * SizeofInt, SizeofInt),
       BrNull("arr", 8),
       Realloc("arr", "arr", 10 * SizeofInt, SizeofInt),
       BrNull("arr", 7),
       Assign("arr", "arr"),
       Return(0),
       Free("arr"),
       Return(1) >>

\* realloc error handling with a temporary pointer
realloc_temp ==
    << Malloc("arr", 5 * SizeofInt, SizeofInt),
       BrNull("arr", 8),
       Realloc("temp", "arr", 10 * SizeofInt, SizeofInt),
       BrNull("temp", 7),
       Assign("arr", "temp"),
       Return(0),
       Free("arr"),
       Return(1) >>

\* "After realloc, assign to a temporary first": int *tmp = realloc(p, newsz);
\* if (tmp) p = tmp;  (p is a block obtained before, newsz twice its size)
realloc_tmp ==
    << Malloc("p", 4 * SizeofInt, SizeofInt),
       BrNull("p", 6),
       Realloc("tmp", "p", 8 * SizeofInt, SizeofInt),
       BrNull("tmp", 6),
       Assign("p", "tmp"),
       Return(0) >>

\* The overview example: p = realloc(p, ...) assigned directly
realloc_direct ==
    << Malloc("p", 5 * SizeofInt, SizeofInt),
       BrNull("p", 10),
       Store("p", SizeofInt, 0, <<1, 2, 3, 4, 5>>),
       Realloc("p", "p", 10 * SizeofInt, SizeofInt),
       Store("p", SizeofInt, 5, <<6, 7, 8, 9, 10>>),
       Load("p", SizeofInt, 0, 10),
       Free("p"),
       SetNull("p"),
       Return(0),
       Return(1) >>

\* realloc example 1: shrinking 16 -> 8 bytes
realloc_shrink ==
    << Malloc("string1", 16, 1),
       Store("string1", 1, 0, Str0123456789AB),
       Realloc("string2", "string1", 8, 1),
       Load("string1", 1, 0, Len(Str0123456789AB)),
       Load("string2", 1, 0, Len(Str0123456789AB)),
       Free("string2"),
       Return(0) >>

\* realloc example 2: enlarging 16 -> 64 bytes
realloc_expand ==
    << Malloc("string1", 16, 1),
       Store("string1", 1, 0, Str0123456789AB),
       Realloc("string2", "string1", 64, 1),
       Load("string1", 1, 0, Len(Str0123456789AB)),
       Load("string2", 1, 0, Len(Str0123456789AB)),
       Free("string2"),
       Return(0) >>

\* README.md: the storage-classes demo: main's heap block, and its call of
\* make_stack_pointer() (int local_var = 20; return &local_var;), whose
\* result sp main hands to printf
readme_main ==
    << Malloc("heap_ptr", SizeofInt, SizeofInt),
       Store("heap_ptr", SizeofInt, 0, <<40>>),
       Local("local_var", 1, SizeofInt),
       Store("local_var", SizeofInt, 0, <<20>>),
       Assign("sp", "local_var"),
       LeaveObject("local_var"),
       Free("heap_ptr"),
       Return(0) >>

\* "The Basic Workflow" of dynamic allocation
basic_workflow ==
    << Malloc("pi", SizeofInt, SizeofInt),
       Store("pi", SizeofInt, 0, <<5>>),
       Load("pi", SizeofInt, 0, 1),
       Free("pi"),
       Return(0) >>

\* Passing a pointer to a pointer: allocateArray(&vector, 5, 45) inlined in
\* main (*arr is main's vector), then main's loop and free
ptr_to_ptr ==
    << Malloc("vector", 5 * SizeofInt, SizeofInt),
       BrNull("vector", 4),
       Store("vector", SizeofInt, 0, <<45, 45, 45, 45, 45>>),
       Load("vector", SizeofInt, 0, 5),
       Free("vector"),
       Return(0) >>

\* calloc.c
calloc_c ==
    << Calloc("pi", 5, SizeofInt),
       BrNull("pi", 5),
       Load("pi", SizeofInt, 0, 5),
       Return(0),
       Return(1) >>

\* The malloc array program (malloc, fill, print, free, null)
malloc_array ==
    << Malloc("pv", 5 * SizeofInt, SizeofInt),
       Store("pv", SizeofInt, 0, <<1, 2, 3, 4, 5>>),
       Load("pv", SizeofInt, 0, 5),
       Free("pv"),
       SetNull("pv"),
       Return(0) >>

\* allocateArray receiving main's pointer by address (*arr is main's vector).
pass_by_address ==
    << SetNull("vector"),
       Assign("arr", "vector"),
       Malloc("vector", 5 * SizeofInt, SizeofInt),
       BrNull("vector", 6),
       Store("vector", SizeofInt, 0, <<45, 45, 45, 45, 45>>),
       LeaveVar("arr"),
       Return(0) >>

\* "Incorrect Version - Passing a Normal Pointer": allocateArray(vector, 5,
\* 45) with int *arr a copy of main's vector, then the rest of main (the
\* printf prints vector's value; main ends with an implicit return 0)
pass_by_value ==
    << SetNull("vector"),
       Assign("arr", "vector"),
       Malloc("arr", 5 * SizeofInt, SizeofInt),
       BrNull("arr", 6),
       Store("arr", SizeofInt, 0, <<45, 45, 45, 45, 45>>),
       LeaveVar("arr"),
       Return(0) >>

\* 04A_heap_return.c with main never freeing what it was returned.
heap_return_no_free ==
    << Malloc("arr", 5 * SizeofInt, SizeofInt),
       BrNull("arr", 4),
       Store("arr", SizeofInt, 0, <<45, 45, 45, 45, 45>>),
       Assign("vector", "arr"),
       LeaveVar("arr"),
       BrNull("vector", 10),
       Load("vector", SizeofInt, 0, 5),
       Assign("vector", "vector"),
       Return(0),
       Return(1) >>

\* 04A_heap_return.c: allocateArray_heap(5, 45) (its return is the
\* assignment to main's vector, then its arr ends), then the rest of main
heap_return ==
    << Malloc("arr", 5 * SizeofInt, SizeofInt),
       BrNull("arr", 4),
       Store("arr", SizeofInt, 0, <<45, 45, 45, 45, 45>>),
       Assign("vector", "arr"),
       LeaveVar("arr"),
       BrNull("vector", 10),
       Load("vector", SizeofInt, 0, 5),
       Free("vector"),
       Return(0),
       Return(1) >>

\* 04_bad_returning_stack.c with arr declared static: its storage stays.
stack_return_static ==
    << Local("arr", 5, SizeofInt),
       Store("arr", SizeofInt, 0, <<42, 42, 42, 42, 42>>),
       Assign("p", "arr"),
       LeaveVar("arr"),
       Load("p", SizeofInt, 0, 5),
       Return(0) >>

\* 04_bad_returning_stack.c: allocateArray_bad(5, 42) (int arr[5], the fill,
\* return arr into main's p, the end of arr's lifetime), then main's reads
stack_return ==
    << Local("arr", 5, SizeofInt),
       Store("arr", SizeofInt, 0, <<42, 42, 42, 42, 42>>),
       Assign("p", "arr"),
       LeaveObject("arr"),
       Load("p", SizeofInt, 0, 5),
       Return(0) >>

\* "Full Working Example (Safe)": fillArray(vector, 5, 99) inlined in main
\* (arr is a copy of vector; the branch is fillArray's arr != NULL test)
fill_array_safe ==
    << Malloc("vector", 5 * SizeofInt, SizeofInt),
       BrNull("vector", 4),
       Store("vector", SizeofInt, 0, <<99, 99, 99, 99, 99>>),
       Load("vector", SizeofInt, 0, 5),
       Free("vector"),
       Return(0) >>

\* struct person { char *name; int *scores; }: the members by position
FieldName(off) == IF off = 0 THEN "name" ELSE "scores"

\* The hidden-leak pattern as the notes show it first: free(p) alone.
person_free_struct_only ==
    << Malloc("p", 2 * SizeofPtr, SizeofPtr),
       MallocField("p", 0, 50, 1),
       MallocField("p", 1, 10 * SizeofInt, SizeofInt),
       Free("p"),
       Return(0) >>

\* struct person with the correct sequence: free(p->name); free(p->scores);
\* free(p);
person_cleanup ==
    << Malloc("p", 2 * SizeofPtr, SizeofPtr),
       MallocField("p", 0, 50, 1),
       MallocField("p", 1, 10 * SizeofInt, SizeofInt),
       FreeField("p", 0),
       FreeField("p", 1),
       Free("p"),
       Return(0) >>

ProgNames == {"demo_safer_free", "unit_tests", "alias_example", "realloc_temp",
              "realloc_tmp", "realloc_direct", "realloc_shrink",
              "realloc_expand", "readme_main", "basic_workflow", "ptr_to_ptr",
              "calloc_c", "malloc_array", "person_cleanup",
              "fill_array_safe", "pass_by_value", "heap_return",
              "stack_return"}

Code(name) ==
    CASE name = "demo_safer_free" -> demo_safer_free
      [] name = "unit_tests" -> unit_tests
      [] name = "alias_example" -> alias_example
      [] name = "realloc_temp" -> realloc_temp
      [] name = "realloc_tmp" -> realloc_tmp
      [] name = "realloc_direct" -> realloc_direct
      [] name = "realloc_shrink" -> realloc_shrink
      [] name = "realloc_expand" -> realloc_expand
      [] name = "readme_main" -> readme_main
      [] name = "basic_workflow" -> basic_workflow
      [] name = "ptr_to_ptr" -> ptr_to_ptr
      [] name = "calloc_c" -> calloc_c
      [] name = "malloc_array" -> malloc_array
      [] name = "person_cleanup" -> person_cleanup
      [] name = "fill_array_safe" -> fill_array_safe
      [] name = "pass_by_value" -> pass_by_value
      [] name = "heap_return" -> heap_return
      [] name = "stack_return" -> stack_return

\* The calls a caller of safer_free.h can make on two handles a and b:
\* a = malloc(4), b = a, SAFER_FREE(a), SAFER_FREE(b), saferFreeImpl(NULL).
DriverOps == {Malloc("a", 4, 1), Assign("b", "a"), SaferFree("a"),
              SaferFree("b"), SaferFree(NoRef)}
\* Every sequence of at most MaxOps such calls, then the end of the caller.
DriverProgs ==
    {s \o <<Return(0)>> : s \in UNION {[1..n -> DriverOps] : n \in 0..MaxOps}}

\* ----------------------------------------------------- function pointers
\* The null function pointer, and the two functions of the notes.
NullFn == "NULL"
add(a, b) == a + b
sub(a, b) == a - b
\* A call op(a, b) through a non-null function pointer.
Apply(op, a, b) == IF op = "add" THEN add(a, b) ELSE sub(a, b)

\* Character codes of the opcodes tried: '*', '+', '-', '/' (all of them
\* indices of the 128-entry table)
Opcodes == {42, 43, 45, 47}
Nums == (0 - MaxNum)..MaxNum

\* fptrOperation select(char opcode)
select(opc) ==
    CASE opc = 43 -> "add"
      [] opc = 45 -> "sub"
      [] OTHER -> NullFn

\* sOperation operations[] = {{'+', add}, {'-', sub}};
sOperations ==
    << [symbol |-> 43, perform |-> "add"], [symbol |-> 45, perform |-> "sub"] >>

\* evaluateStruct's loop from index i (0-based) on: the function called, if
\* any, and the value returned.
RECURSIVE evaluateStructFrom(_, _, _, _)
evaluateStructFrom(i, opc, a, b) ==
    IF ~(i < 2) THEN [fn |-> NullFn, result |-> 0]
    ELSE IF sOperations[i + 1].symbol = opc
         THEN [fn |-> sOperations[i + 1].perform,
               result |-> Apply(sOperations[i + 1].perform, a, b)]
         ELSE evaluateStructFrom(i + 1, opc, a, b)

\* evaluateStruct with its loop started at index 1.
evaluateStructSkipFirst(opc, a, b) == evaluateStructFrom(1, opc, a, b)

evaluateStruct(opc, a, b) == evaluateStructFrom(0, opc, a, b)

\* operation operations[128] = {NULL}: the state keeps the entries that have
\* been assigned, every other entry of the table is NULL.  The opcodes tried
\* are all within 0..TableSize-1, so no read falls outside the table.
TableAt(table, c) == IF c \in DOMAIN table THEN table[c] ELSE NullFn
OperationsAt(c) == TableAt(operations, c)

\* operations[tag] = fn with the element that was there kept.
RegisterKeepFirst(table, tag, fn) == table @@ (tag :> fn)

\* operations[tag] = fn: the assignment that registers fn for tag
Register(table, tag, fn) == (tag :> fn) @@ table

\* ------------------------------------------------------------ int, size_t
IntMax == 2 ^ (IntBits - 1) - 1
SizeBitsChoices == {IntBits, 2 * IntBits}
\* (size_t)size * sizeof(int) where size_t has bits bits
ByteCount(size, bits) == (size * SizeofInt) % (2 ^ bits)

\* allocateArray_heap(size, 45) and a caller that frees what it returns
alloc_sized(size, bits) ==
    << Malloc("arr", ByteCount(size, bits), SizeofInt),
       BrNull("arr", 4),
       Store("arr", SizeofInt, 0, Fill(size, 45)),
       Assign("vector", "arr"),
       LeaveVar("arr"),
       Free("vector"),
       Return(0) >>

\* ----------------------------------------------------------------- workflow
\* What step_add and step_sub print for the context they are given.
Perform(step, c) ==
    IF step = "step_add" THEN c.num2 + c.num3 ELSE c.num2 - c.num3

\* sContext ctx = {10, 4} of main, and another one
Contexts == {[num2 |-> 10, num3 |-> 4], [num2 |-> 1, num3 |-> 2]}
WorkflowSteps == {"step_add", "step_sub", NullFn}
\* sWorkflow calc = {"Calculator", {step_add, step_sub, NULL}}
CalcSteps == <<"step_add", "step_sub", NullFn>>

\* runWorkflow's loop taking every entry for a step.
WfConditionAlways(step) == TRUE

\* runWorkflow's loop condition wf->steps[i] != NULL
WfCondition(step) == step # NullFn

WfStart(steps, ctx) ==
    [steps |-> steps, ctx |-> ctx, i |-> 0, log |-> <<>>, reads |-> <<>>]

\* ------------------------------------------------------------------- state
Init ==
    /\ pc = 1
    /\ status = "running"
    /\ ret = 0
    /\ env = [v \in VarNames |-> NULL]
    /\ heap = [b \in Blocks |-> Unalloc]
    /\ stale = {}
    /\ released = {}
    /\ events = <<>>
    /\ operations = [c \in {} |-> NullFn]
    /\ inits = 0
    /\ called = "none"
    /\ result = 0
    /\ calls = <<>>
    /\ \/ /\ prog \in ProgNames
          /\ script = <<>>
          /\ opcode = 43 /\ num2 = 0 /\ num3 = 0
          /\ wf = WfStart(CalcSteps, [num2 |-> 10, num3 |-> 4])
          /\ arg = [size |-> 5, bits |-> 2 * IntBits]
       \/ /\ prog = "driver"
          /\ script \in DriverProgs
          /\ opcode = 43 /\ num2 = 0 /\ num3 = 0
          /\ wf = WfStart(CalcSteps, [num2 |-> 10, num3 |-> 4])
          /\ arg = [size |-> 5, bits |-> 2 * IntBits]
       \/ /\ prog = "dispatch"
          /\ script = <<>>
          /\ opcode \in Opcodes /\ num2 \in Nums /\ num3 \in Nums
          /\ wf = WfStart(CalcSteps, [num2 |-> 10, num3 |-> 4])
          /\ arg = [size |-> 5, bits |-> 2 * IntBits]
       \/ /\ prog = "workflow"
          /\ script = <<>>
          /\ opcode = 43 /\ num2 = 0 /\ num3 = 0
          /\ \E steps \in [1..StepsSize -> WorkflowSteps], ctx \in Contexts :
                wf = WfStart(steps, ctx)
          /\ arg = [size |-> 5, bits |-> 2 * IntBits]
       \/ /\ prog = "alloc_sized"
          /\ script = <<>>
          /\ opcode = 43 /\ num2 = 0 /\ num3 = 0
          /\ wf = WfStart(CalcSteps, [num2 |-> 10, num3 |-> 4])
          /\ \E size \in 1..IntMax, bits \in SizeBitsChoices :
                arg = [size |-> size, bits |-> bits]

\* The statements of the running program: a driver runs its script.
code ==
    IF prog = "driver" THEN script
    ELSE IF prog \in ProgNames THEN Code(prog)
    ELSE IF prog = "alloc_sized" THEN alloc_sized(arg.size, arg.bits)
    ELSE <<>>

\* The statement at pc is an op statement, about to run.
Running(op) ==
    /\ prog # "dispatch"
    /\ status = "running"
    /\ pc \in 1..Len(code)
    /\ code[pc].op = op

I == code[pc]

\* A logged use of pointer value ptr held by variable via.
Ev(kind, via, ptr, why) ==
    [kind |-> kind, via |-> via, ptr |-> ptr, why |-> why,
     stale |-> via \in stale]

\* The statement is done: go on at next; after undefined behaviour the
\* program crashes or goes on.
Proceed(why, next) ==
    IF why = "ok"
    THEN pc' = next /\ status' = status
    ELSE \E crash \in BOOLEAN :
            IF crash THEN pc' = pc /\ status' = "crashed"
            ELSE pc' = next /\ status' = status

\* What free(p) or realloc(p, ..) is handed.
WhyRelease(h, p) ==
    IF p = NULL \/ h[p].st = "live" THEN "ok" ELSE "freed"

ExecMalloc ==
    /\ Running("malloc")
    /\ \E r \in malloc(heap, I.bytes, I.cell) :
          /\ heap' = r.heap
          /\ env' = [env EXCEPT ![I.dst] = r.ptr]
    /\ stale' = stale \ {I.dst}
    /\ released' = released \ {I.dst}
    /\ pc' = pc + 1
    /\ UNCHANGED <<prog, script, status, ret, events>>
    /\ UNCHANGED dispatchVars

ExecCalloc ==
    /\ Running("calloc")
    /\ \E r \in calloc(heap, I.n, I.cell) :
          /\ heap' = r.heap
          /\ env' = [env EXCEPT ![I.dst] = r.ptr]
    /\ stale' = stale \ {I.dst}
    /\ released' = released \ {I.dst}
    /\ pc' = pc + 1
    /\ UNCHANGED <<prog, script, status, ret, events>>
    /\ UNCHANGED dispatchVars

ExecRealloc ==
    /\ Running("realloc")
    /\ LET p == env[I.src]
           w == WhyRelease(heap, p)
       IN /\ events' = Append(events, Ev("realloc", I.src, p, w))
          /\ \E r \in realloc(heap, p, I.bytes, I.cell) :
                /\ heap' = r.heap
                /\ env' = [env EXCEPT ![I.dst] = r.ptr]
                /\ stale' =
                      IF p # NULL /\ r.ptr # NULL
                      THEN (stale \cup {x \in VarNames : env[x] = p}) \ {I.dst}
                      ELSE stale \ {I.dst}
          /\ Proceed(w, pc + 1)
    /\ released' = released \ {I.dst}
    /\ UNCHANGED <<prog, script, ret>>
    /\ UNCHANGED dispatchVars

ExecFree ==
    /\ Running("free")
    /\ LET p == env[I.src]
           w == WhyRelease(heap, p)
       IN /\ events' = Append(events, Ev("free", I.src, p, w))
          /\ heap' = free(heap, p)
          /\ Proceed(w, pc + 1)
    /\ UNCHANGED <<prog, script, ret, env, stale, released>>
    /\ UNCHANGED dispatchVars

ExecSaferFree ==
    /\ Running("saferfree")
    /\ LET r == saferFreeImpl(I.src, env, heap)
           w == WhyRelease(heap, r.freed)
       IN /\ events' = IF r.freed # NULL
                       THEN Append(events, Ev("saferfree", I.src, r.freed, w))
                       ELSE events
          /\ Proceed(w, pc + 1)
          /\ heap' = r.heap
          /\ env' = IF status' = "crashed" THEN env ELSE r.env
          /\ stale' = IF r.env # env /\ status' # "crashed"
                      THEN stale \ {I.src} ELSE stale
          /\ released' = IF I.src # NoRef /\ status' # "crashed"
                         THEN released \cup {I.src} ELSE released
    /\ UNCHANGED <<prog, script, ret>>
    /\ UNCHANGED dispatchVars

ExecStore ==
    /\ Running("store")
    /\ LET p == env[I.dst]
           w == Why(heap, p, I.off, I.n, I.cell)
       IN /\ events' = Append(events, Ev("write", I.dst, p, w))
          /\ heap' =
                IF w \in {"ok", "oob"}
                THEN [heap EXCEPT ![p].data =
                        [i \in 1..Len(@) |->
                            IF i > I.off /\ i <= I.off + I.n
                            THEN Val(I.vals[i - I.off]) ELSE @[i]]]
                ELSE heap
          /\ Proceed(w, pc + 1)
    /\ UNCHANGED <<prog, script, ret, env, stale, released>>
    /\ UNCHANGED dispatchVars

ExecLoad ==
    /\ Running("load")
    /\ LET p == env[I.src]
           w == Why(heap, p, I.off, I.n, I.cell)
       IN /\ events' = Append(events, Ev("read", I.src, p, w))
          /\ Proceed(w, pc + 1)
    /\ UNCHANGED <<prog, script, ret, env, heap, stale, released>>
    /\ UNCHANGED dispatchVars

\* p->field = malloc(bytes): the allocation, then a write of its result into
\* the member through p.
ExecMallocField ==
    /\ Running("mallocfield")
    /\ LET p == env[I.dst]
           w == Why(heap, p, I.off, 1, SizeofPtr)
       IN /\ events' = Append(events, Ev("write", I.dst, p, w))
          /\ \E r \in malloc(heap, I.bytes, I.cell) :
                heap' = IF w = "ok"
                        THEN [r.heap EXCEPT ![p].data[I.off + 1] = Val(r.ptr)]
                        ELSE r.heap
          /\ Proceed(w, pc + 1)
    /\ UNCHANGED <<prog, script, ret, env, stale, released>>
    /\ UNCHANGED dispatchVars

\* free(p->field): a read of the member through p, then free of what was
\* read; what an invalid or indeterminate read yields is any pointer value.
ExecFreeField ==
    /\ Running("freefield")
    /\ LET p == env[I.src]
           w == Why(heap, p, I.off, 1, SizeofPtr)
           known == w = "ok" /\ heap[p].data[I.off + 1] # Indet
       IN \E q \in (IF known THEN {heap[p].data[I.off + 1][1]}
                    ELSE {NULL} \cup Blocks) :
             LET wq == IF ~known THEN (IF w = "ok" THEN "indet" ELSE w)
                       ELSE WhyRelease(heap, q)
             IN /\ events' = events \o
                      << Ev("read", I.src, p, w),
                         Ev("free", I.src \o "->" \o FieldName(I.off), q, wq) >>
                /\ heap' = free(heap, q)
                /\ Proceed(wq, pc + 1)
    /\ UNCHANGED <<prog, script, ret, env, stale, released>>
    /\ UNCHANGED dispatchVars

\* A local object comes to life when its function is entered; the stack
\* has room for it.
ExecLocal ==
    /\ Running("local")
    /\ HasRoom(heap)
    /\ heap' = [heap EXCEPT ![FreshBlock(heap)] =
                    [st |-> "live", bytes |-> I.bytes,
                     data |-> Fill(I.n, Indet)]]
    /\ env' = [env EXCEPT ![I.dst] = FreshBlock(heap)]
    /\ stale' = stale \ {I.dst}
    /\ released' = released \ {I.dst}
    /\ pc' = pc + 1
    /\ UNCHANGED <<prog, script, status, ret, events>>
    /\ UNCHANGED dispatchVars

\* The function returns: its variable is gone, and with it the storage of a
\* local object (heap blocks a pointer variable referred to stay).
ExecLeave ==
    /\ Running("leave")
    /\ heap' = IF I.n = 1 /\ env[I.dst] # NULL
               THEN [heap EXCEPT ![env[I.dst]].st = "dead"]
               ELSE heap
    /\ env' = [env EXCEPT ![I.dst] = NULL]
    /\ stale' = stale \ {I.dst}
    /\ released' = released \ {I.dst}
    /\ pc' = pc + 1
    /\ UNCHANGED <<prog, script, status, ret, events>>
    /\ UNCHANGED dispatchVars

ExecBrNull ==
    /\ Running("brnull")
    /\ pc' = IF env[I.src] = NULL THEN I.tgt ELSE pc + 1
    /\ UNCHANGED <<prog, script, status, ret, env, heap, stale, released, events>>
    /\ UNCHANGED dispatchVars

ExecAssign ==
    /\ Running("assign")
    /\ env' = [env EXCEPT ![I.dst] = env[I.src]]
    /\ stale' = IF I.src \in stale THEN stale \cup {I.dst} ELSE stale \ {I.dst}
    /\ released' = released \ {I.dst}
    /\ pc' = pc + 1
    /\ UNCHANGED <<prog, script, status, ret, heap, events>>
    /\ UNCHANGED dispatchVars

ExecSetNull ==
    /\ Running("setnull")
    /\ env' = [env EXCEPT ![I.dst] = NULL]
    /\ stale' = stale \ {I.dst}
    /\ released' = released \ {I.dst}
    /\ pc' = pc + 1
    /\ UNCHANGED <<prog, script, status, ret, heap, events>>
    /\ UNCHANGED dispatchVars

ExecReturn ==
    /\ Running("return")
    /\ status' = "returned"
    /\ ret' = I.n
    /\ UNCHANGED <<prog, script, pc, env, heap, stale, released, events>>
    /\ UNCHANGED dispatchVars

\* ----------------------------------------------------------------- dispatch
Dispatching == prog = "dispatch" /\ status = "running"

\* A call op(a, b) from function by: through a null pointer it is undefined
\* (a crash, or any value returned).
CallThrough(by, op, a, b) ==
    /\ called' = by
    /\ calls' = Append(calls, [fn |-> op, a |-> a, b |-> b])
    /\ IF op # NullFn
       THEN status' = "returned" /\ result' = Apply(op, a, b)
       ELSE \E crash \in BOOLEAN :
               IF crash THEN status' = "crashed" /\ result' = result
               ELSE status' = "returned" /\ result' \in Nums

\* void initializeOperationsArray()
initializeOperationsArray ==
    /\ Dispatching
    /\ inits < MaxInits
    /\ operations' = Register(Register(operations, 43, "add"), 45, "sub")
    /\ inits' = inits + 1
    /\ UNCHANGED <<prog, opcode, num2, num3, called, result, calls, wf, arg>>
    /\ UNCHANGED heapVars

\* int evaluate(char opcode, int num2, int num3)
evaluate ==
    /\ Dispatching
    /\ CallThrough("evaluate", select(opcode), num2, num3)
    /\ UNCHANGED <<prog, script, pc, ret, env, heap, stale, released, events>>
    /\ UNCHANGED <<opcode, num2, num3, operations, inits, wf, arg>>

\* int evaluateArray(char opcode, int num2, int num3)
evaluateArray ==
    /\ Dispatching
    /\ CallThrough("evaluateArray", OperationsAt(opcode), num2, num3)
    /\ UNCHANGED <<prog, script, pc, ret, env, heap, stale, released, events>>
    /\ UNCHANGED <<opcode, num2, num3, operations, inits, wf, arg>>

\* int evaluateStruct(char opcode, int num2, int num3) as a caller sees it
EvaluateStructCall ==
    /\ Dispatching
    /\ LET r == evaluateStruct(opcode, num2, num3)
       IN /\ called' = "evaluateStruct"
          /\ calls' = IF r.fn # NullFn
                      THEN Append(calls, [fn |-> r.fn, a |-> num2, b |-> num3])
                      ELSE calls
          /\ result' = r.result
          /\ status' = "returned"
    /\ UNCHANGED <<prog, script, pc, ret, env, heap, stale, released, events>>
    /\ UNCHANGED <<opcode, num2, num3, operations, inits, wf, arg>>

\* ----------------------------------------------------------------- workflow
\* void runWorkflow(sWorkflow *wf, void *ctx), one turn of its loop: the
\* read of steps[i], then the call of the step and ++i, or the return.  A
\* read past the end of steps[] is undefined: a crash, or a null or
\* non-null value read, the latter called through.
runWorkflow ==
    /\ prog = "workflow"
    /\ status = "running"
    /\ LET i == wf.i
           inside == i < StepsSize
           read == [wf EXCEPT !.reads = Append(@, i)]
           call(step) ==
               [read EXCEPT !.i = i + 1,
                            !.log = Append(@,
                                [step |-> step, ctx |-> wf.ctx, idx |-> i,
                                 out |-> IF step \in {"step_add", "step_sub"}
                                         THEN Perform(step, wf.ctx) ELSE 0])]
       IN IF inside
          THEN IF WfCondition(wf.steps[i + 1])
               THEN wf' = call(wf.steps[i + 1]) /\ status' = status
               ELSE wf' = read /\ status' = "returned"
          ELSE \/ wf' = read /\ status' = "crashed"
               \/ wf' = read /\ status' = "returned"
               \/ /\ i < StepsSize + MaxOob
                  /\ wf' = call("garbage")
                  /\ status' \in {"running", "crashed"}
    /\ UNCHANGED <<prog, script, pc, ret, env, heap, stale, released, events>>
    /\ UNCHANGED <<opcode, num2, num3, operations, inits, called, result,
                   calls, arg>>

Next ==
    \/ ExecMalloc \/ ExecCalloc \/ ExecRealloc \/ ExecFree \/ ExecSaferFree
    \/ ExecStore \/ ExecLoad \/ ExecMallocField \/ ExecFreeField
    \/ ExecBrNull \/ ExecAssign \/ ExecSetNull \/ ExecLocal \/ ExecLeave
    \/ ExecReturn
    \/ initializeOperationsArray \/ evaluate \/ evaluateArray
    \/ EvaluateStructCall
    \/ runWorkflow

Spec == Init /\ [][Next]_vars

\* ------------------------------------------------------------------ claims
\* Programs with a main of their own (the others are fragments).
MainProgs == {"demo_safer_free", "realloc_direct", "realloc_shrink",
              "realloc_expand", "readme_main", "basic_workflow", "ptr_to_ptr",
              "calloc_c", "malloc_array", "fill_array_safe", "pass_by_value",
              "heap_return", "stack_return"}

\* free calls SAFER_FREE(via) made on block b
SaferFreesBy(via, b) ==
    Cardinality({i \in DOMAIN events :
        events[i].kind = "saferfree" /\ events[i].via = via
                                     /\ events[i].ptr = b})

\* free calls (plain or through SAFER_FREE) made on block b
FreeCalls(b) ==
    Cardinality({i \in DOMAIN events :
        events[i].kind \in {"free", "saferfree"} /\ events[i].ptr = b})

\* C1: SAFER_FREE(p) on a variable p that holds a live block releases that
\* block and writes NULL into p; the call returns normally with p = NULL.
C1_ReleaseNullsHandle ==
    [][ (/\ Running("saferfree")
         /\ I.src # NoRef
         /\ env[I.src] # NULL
         /\ heap[env[I.src]].st = "live")
        => (/\ heap'[env[I.src]].st = "freed"
            /\ env'[I.src] = NULL
            /\ status' = "running"
            /\ pc' = pc + 1) ]_vars

\* C1 witness: demo_safer_free after its first SAFER_FREE(pi).
C1_Witness ==
    /\ prog = "demo_safer_free"
    /\ pc = 6
    /\ env["pi"] = NULL
    /\ heap[1].st = "freed"
    /\ SaferFreesBy("pi", 1) = 1

\* C2: SAFER_FREE on one pointer variable passes a block to free at most once,
\* and a SAFER_FREE of a variable whose last write was a SAFER_FREE is a
\* no-op: no free, no access, nothing changed but the program counter.
C2_DoubleReleaseSafe ==
    /\ [](\A x \in VarNames : \A b \in Blocks : SaferFreesBy(x, b) <= 1)
    /\ [][ (Running("saferfree") /\ I.src \in released)
           => (/\ heap' = heap
               /\ env' = env
               /\ events' = events
               /\ status' = "running") ]_vars

\* C2 witness: demo_safer_free after its second SAFER_FREE(pi) in a row.
C2_Witness ==
    /\ prog = "demo_safer_free"
    /\ pc = 7
    /\ status = "running"
    /\ "pi" \in released
    /\ heap[1].st = "freed"
    /\ FreeCalls(1) = 1

\* The owning pointer and the temporary of the two temporary-pointer snippets.
ReallocOwner == IF prog = "realloc_temp" THEN "arr" ELSE "p"
ReallocTmp == IF prog = "realloc_temp" THEN "temp" ELSE "tmp"

\* C4: a realloc that fails leaves the heap as it was (the block allocated,
\* its content unchanged); in the temporary-pointer snippets the owning
\* pointer still refers to that live block after the failure, and it is
\* overwritten only by a non-null result of realloc.
C4_FailedResizeKeepsBlock ==
    [][ /\ (/\ Running("realloc")
            /\ env[I.src] # NULL
            /\ heap[env[I.src]].st = "live"
            /\ I.bytes > 0
            /\ env'[I.dst] = NULL)
           => (heap' = heap /\ status' = "running")
        /\ (/\ prog \in {"realloc_temp", "realloc_tmp"}
            /\ Running("realloc")
            /\ env[I.src] # NULL
            /\ env'[I.dst] = NULL)
           => (/\ env'[ReallocOwner] = env[I.src]
               /\ heap'[env'[ReallocOwner]] = heap[env[I.src]]
               /\ heap'[env'[ReallocOwner]].st = "live")
        /\ (/\ prog \in {"realloc_temp", "realloc_tmp"}
            /\ env[ReallocOwner] # NULL
            /\ env'[ReallocOwner] # env[ReallocOwner])
           => (/\ env[ReallocTmp] # NULL
               /\ env'[ReallocOwner] = env[ReallocTmp]) ]_vars

\* C4 witness: realloc_temp right after its realloc failed.
C4_Witness ==
    /\ prog = "realloc_temp"
    /\ pc = 4
    /\ env["temp"] = NULL
    /\ env["arr"] # NULL
    /\ heap[env["arr"]].st = "live"

\* C6: no call is ever made through a null function pointer.
C6_NoCallThroughNull ==
    \A i \in DOMAIN calls : calls[i].fn # NullFn

\* C7: evaluateStruct('+', a, b) calls add once with (a, b), calls nothing
\* else and returns a + b; evaluateStruct('-', a, b) likewise with sub and
\* a - b; and once initializeOperationsArray has registered them,
\* evaluateArray does the same for '+' and '-'.
C7_DispatchCorrect ==
    /\ (prog = "dispatch" /\ called = "evaluateStruct" /\ opcode = 43)
       => (/\ status = "returned"
           /\ calls = <<[fn |-> "add", a |-> num2, b |-> num3]>>
           /\ result = num2 + num3)
    /\ (prog = "dispatch" /\ called = "evaluateStruct" /\ opcode = 45)
       => (/\ status = "returned"
           /\ calls = <<[fn |-> "sub", a |-> num2, b |-> num3]>>
           /\ result = num2 - num3)
    /\ (/\ prog = "dispatch" /\ called = "evaluateArray"
        /\ OperationsAt(43) = "add" /\ OperationsAt(45) = "sub"
        /\ opcode \in {43, 45})
       => (/\ status = "returned"
           /\ calls = <<[fn |-> IF opcode = 43 THEN "add" ELSE "sub",
                         a |-> num2, b |-> num3]>>
           /\ result = IF opcode = 43 THEN num2 + num3 ELSE num2 - num3)

\* C7 witness: evaluateStruct('-', 2, -1) has returned 3 through sub.
C7_Witness ==
    /\ prog = "dispatch"
    /\ called = "evaluateStruct"
    /\ opcode = 45 /\ num2 = 2 /\ num3 = -1
    /\ result = 3
    /\ calls = <<[fn |-> "sub", a |-> 2, b |-> -1]>>

\* C8: no read or write of any program goes through NULL or to a block that
\* has been released.
C8_NoInvalidDeref ==
    prog \in ProgNames =>
        \A i \in DOMAIN events :
            events[i].kind \in {"read", "write"}
                => events[i].why \notin {"null", "freed"}

\* C9: when a program ends, every block it obtained has been released, by
\* exactly one free.
C9_EveryBlockFreedOnce ==
    (prog \in MainProgs /\ status = "returned") =>
        \A b \in Blocks :
            heap[b].st \in {"live", "freed"}
                => (heap[b].st = "freed" /\ FreeCalls(b) <= 1)

\* C10: after a realloc that succeeded, nothing is read, written or freed
\* through a variable that still holds the pointer handed to that realloc.
C10_OldReferenceUnused ==
    prog \in ProgNames => \A i \in DOMAIN events : ~events[i].stale

\* What struct person's cleanup goes through: the struct and its members.
PersonMembers == {"p->name", "p->scores"}

\* C16: destruction order of an owner and what it owns, on struct person's
\* cleanup: every owned member is released while the owning struct is still
\* live, each member block exactly once; the struct is released after them,
\* exactly once; and nothing is read, written or freed through the struct
\* once it has been released.
C16_MembersBeforeOwner ==
    (prog = "person_cleanup" /\ env["p"] # NULL) =>
        /\ \A i \in DOMAIN events :
              (events[i].via \in PersonMembers) =>
                  /\ events[i].why = "ok"
                  /\ events[i - 1] = Ev("read", "p", env["p"], "ok")
        /\ \A i \in DOMAIN events :
              (events[i].kind = "free" /\ events[i].via = "p") =>
                  /\ events[i].ptr = env["p"]
                  /\ events[i].why = "ok"
                  /\ i = Len(events)
                  /\ \A m \in PersonMembers :
                        \E j \in 1..(i - 1) : events[j].via = m
        /\ status = "returned" =>
              \A b \in Blocks :
                  heap[b].st # "unalloc"
                      => (heap[b].st = "freed" /\ FreeCalls(b) = 1)

\* C16 witness: the cleanup is done, the struct and both members had been
\* allocated, and block 1 (the struct) was the last one freed.
C16_Witness ==
    /\ prog = "person_cleanup"
    /\ status = "returned"
    /\ env["p"] = 1
    /\ \A b \in 1..3 : heap[b].st = "freed" /\ FreeCalls(b) = 1
    /\ events[Len(events)] = Ev("free", "p", 1, "ok")
    /\ events[Len(events) - 1].via = "p->scores"
    /\ events[Len(events) - 1].ptr = 3

\* C17: saferFreeImpl on a null handle (the caller's variable holds NULL, or
\* the reference passed is itself NULL) calls no free and changes nothing: the
\* heap, every variable and the log stay as they are and the caller goes on;
\* and for every handle, releasing twice leaves what releasing once leaves,
\* the second release freeing nothing.
C17_ReleaseOnNullIsNoOp ==
    /\ [][ (/\ Running("saferfree")
            /\ (I.src = NoRef \/ env[I.src] = NULL))
           => (/\ heap' = heap
               /\ env' = env
               /\ events' = events
               /\ status' = "running"
               /\ pc' = pc + 1) ]_vars
    /\ [](\A pp \in VarNames \cup {NoRef} :
            LET once == saferFreeImpl(pp, env, heap)
                twice == saferFreeImpl(pp, once.env, once.heap)
            IN /\ twice.env = once.env
               /\ twice.heap = once.heap
               /\ twice.freed = NULL)

\* C17 witness: the unit tests after SAFER_FREE(p) on p = NULL: nothing was
\* freed and nothing allocated.
C17_Witness ==
    /\ prog = "unit_tests"
    /\ pc = 3
    /\ status = "running"
    /\ env["p"] = NULL
    /\ "p" \in released
    /\ events = <<>>
    /\ \A b \in Blocks : heap[b].st = "unalloc"

\* Every value a registered callback can return on the operands tried.
RegisteredResults ==
    {Apply(f, a, b) : f \in {"add", "sub"}, a \in Nums, b \in Nums}

\* The opcode dispatched has no callback in the table the function called
\* looks it up in.
Unregistered ==
    IF called = "evaluateArray" THEN OperationsAt(opcode) = NullFn
    ELSE select(opcode) = NullFn

\* C18: a dispatch on an unregistered opcode that returns to its caller
\* returns an error result, one that no registered callback can return
\* (stated of the dispatches whose behaviour is defined, those that call
\* through no null pointer).
C18_UnknownTagSurfaced ==
    (/\ prog = "dispatch"
     /\ called # "none"
     /\ status = "returned"
     /\ Unregistered
     /\ \A i \in DOMAIN calls : calls[i].fn # NullFn)
    => result \notin RegisteredResults

\* The entries of the table other than those of '+' and '-'.
OtherTags == (0..(TableSize - 1)) \ {43, 45}

\* C19: the operation tables hold at most one callback per tag.  No two
\* entries of the struct table share a symbol.  In the array table, before
\* any registration every entry is NULL; after initializeOperationsArray,
\* called once or again on tags already present, '+' yields add, '-' yields
\* sub and every other entry is still NULL, and a dispatch of '+' or '-'
\* calls that one callback only.  The registering assignment overwrites:
\* whatever callback a tag has, registering g for it makes lookups of the tag
\* yield g and leaves the lookup of every other tag as it was.
C19_OneCallbackPerTag ==
    /\ \A i, j \in DOMAIN sOperations :
          sOperations[i].symbol = sOperations[j].symbol => i = j
    /\ inits = 0 => \A c \in 0..(TableSize - 1) : OperationsAt(c) = NullFn
    /\ inits > 0 => /\ OperationsAt(43) = "add"
                    /\ OperationsAt(45) = "sub"
                    /\ \A c \in OtherTags : OperationsAt(c) = NullFn
    /\ (called = "evaluateArray" /\ inits > 0 /\ opcode \in {43, 45})
       => calls = <<[fn |-> OperationsAt(opcode), a |-> num2, b |-> num3]>>
    /\ \A t \in Opcodes : \A f, g \in {"add", "sub"} :
          LET first == Register(operations, t, f)
              second == Register(first, t, g)
          IN /\ TableAt(first, t) = f
             /\ TableAt(second, t) = g
             /\ \A c \in (0..(TableSize - 1)) \ {t} :
                   TableAt(second, c) = OperationsAt(c)

\* C19 witness: initializeOperationsArray has run twice, the second time on
\* tags already present, and evaluateArray('+', 1, 2) then called add only.
C19_Witness ==
    /\ prog = "dispatch"
    /\ inits = 2
    /\ called = "evaluateArray"
    /\ opcode = 43 /\ num2 = 1 /\ num3 = 2
    /\ OperationsAt(43) = "add"
    /\ calls = <<[fn |-> "add", a |-> 1, b |-> 2]>>
    /\ result = 3

\* C20: once allocateArray(&vector, 5, 45) has returned (main is at its
\* loop), main's vector points to a live block of 5 elements, each 45, and
\* the reads of vector[0..4] that follow are reads of that block.
C20_AllocateArrayFillsCallerPointer ==
    prog = "ptr_to_ptr" =>
        /\ (pc >= 4 /\ \A i \in DOMAIN events : events[i].kind # "free") =>
              /\ env["vector"] # NULL
              /\ heap[env["vector"]].st = "live"
              /\ heap[env["vector"]].bytes = 5 * SizeofInt
              /\ heap[env["vector"]].data = Fill(5, Val(45))
        /\ \A i \in DOMAIN events :
              events[i].kind = "read" =>
                  /\ events[i].ptr = env["vector"]
                  /\ events[i].ptr # NULL
                  /\ events[i].why = "ok"

\* C21: in the safe fillArray program, when malloc returns NULL nothing is
\* written and nothing is read through the null pointer, by fillArray or by
\* the rest of main.
C21_FillArraySafeOnNull ==
    prog = "fill_array_safe" =>
        \A i \in DOMAIN events :
            events[i].kind \in {"read", "write"} => events[i].ptr # NULL

\* C23: SAFER_FREE writes only to the variable whose address it is given:
\* every other pointer variable keeps its value, so a variable that aliased
\* the released block still holds the address of that block, now freed.
C23_AliasesNotNulled ==
    [][ Running("saferfree") =>
          /\ \A x \in VarNames \ {I.src} : env'[x] = env[x]
          /\ \A x \in VarNames \ {I.src} :
                (/\ I.src # NoRef
                 /\ env[I.src] # NULL
                 /\ env[x] = env[I.src]
                 /\ heap[env[x]].st = "live"
                 /\ status' = "running")
                => (/\ env'[x] # NULL
                    /\ heap'[env'[x]].st = "freed"
                    /\ env'[I.src] = NULL) ]_vars

\* C23 witness: the alias example after SAFER_FREE(a): a is NULL, b still
\* holds the block, which has been freed.
C23_Witness ==
    /\ prog = "alias_example"
    /\ pc = 4
    /\ env["a"] = NULL
    /\ env["b"] = 1
    /\ heap[1].st = "freed"
    /\ SaferFreesBy("a", 1) = 1

\* Block b is allocated and no pointer variable holds its address.
Lost(b) ==
    /\ heap[b].st = "live"
    /\ \A x \in VarNames : env[x] # b

\* C24: when p = realloc(p, n) fails, the block p referred to is still
\* allocated, unchanged, and no variable holds its address any more; from
\* then on it stays allocated and unreferenced, so no free can reach it.
C24_DirectAssignLosesBlock ==
    [][ /\ (/\ Running("realloc")
            /\ I.dst = I.src
            /\ env[I.src] # NULL
            /\ heap[env[I.src]].st = "live"
            /\ I.bytes > 0
            /\ env'[I.dst] = NULL)
           => (/\ heap'[env[I.src]] = heap[env[I.src]]
               /\ \A x \in VarNames : env'[x] # env[I.src])
        /\ \A b \in Blocks :
              (prog = "realloc_direct" /\ Lost(b)) => Lost(b)' ]_vars

\* C24 witness: the overview example has run to its end after its realloc
\* failed: p is NULL, the block is still allocated and was never freed.
C24_Witness ==
    /\ prog = "realloc_direct"
    /\ status = "returned"
    /\ ret = 0
    /\ env["p"] = NULL
    /\ Lost(1)
    /\ FreeCalls(1) = 0

\* C25: with allocateArray(int *arr, ..) main's vector is NULL before, during
\* and after the call; once the call has returned, the block allocated
\* inside it is still allocated, no variable holds its address, and it is
\* never freed.
C25_PassByValueLeavesCaller ==
    prog = "pass_by_value" =>
        /\ env["vector"] = NULL
        /\ \A i \in DOMAIN events : events[i].kind # "free"
        /\ pc >= 7 =>
              \A b \in Blocks : heap[b].st # "unalloc" => Lost(b)

\* C25 witness: main has ended, vector is NULL, and the block filled with
\* 45s inside allocateArray is allocated and unreferenced.
C25_Witness ==
    /\ prog = "pass_by_value"
    /\ status = "returned"
    /\ env["vector"] = NULL
    /\ Lost(1)
    /\ heap[1].data = Fill(5, Val(45))

\* C28: in 04A_heap_return.c, when allocateArray_heap's allocation succeeds
\* main ends with the block freed by exactly one free, which comes after
\* every read of the block, all of them valid; when allocateArray_heap
\* returns NULL, main returns 1 having dereferenced and freed nothing.
C28_CalleeAllocatesCallerFrees ==
    prog = "heap_return" =>
        /\ \A i \in DOMAIN events : events[i].why = "ok" /\ events[i].ptr # NULL
        /\ (status = "returned" /\ ret = 0) =>
              /\ env["vector"] # NULL
              /\ heap[env["vector"]].st = "freed"
              /\ FreeCalls(env["vector"]) = 1
              /\ events[Len(events)] = Ev("free", "vector", env["vector"], "ok")
              /\ \E i \in 1..(Len(events) - 1) :
                    events[i] = Ev("read", "vector", env["vector"], "ok")
              /\ \A b \in Blocks \ {env["vector"]} : heap[b].st = "unalloc"
        /\ (status = "returned" /\ ret = 1) =>
              /\ env["vector"] = NULL
              /\ events = <<>>
              /\ \A b \in Blocks : heap[b].st = "unalloc"
        /\ (pc >= 6 /\ env["vector"] = NULL) => (pc = 6 \/ pc = 10)

\* C28 witness: main returned 0 after write, read and free of block 1.
C28_Witness ==
    /\ prog = "heap_return"
    /\ status = "returned"
    /\ ret = 0
    /\ heap[1].st = "freed"
    /\ events = << Ev("write", "arr", 1, "ok"), Ev("read", "vector", 1, "ok"),
                   Ev("free", "vector", 1, "ok") >>

\* C30: once allocateArray_bad has returned, main's p holds the address of
\* storage whose lifetime has ended, and every read of p[0..4] is a read of
\* that dead storage; likewise what make_stack_pointer returned.
C30_ReturnedLocalIsDead ==
    /\ prog = "stack_return" =>
          /\ pc >= 5 => (env["p"] # NULL /\ heap[env["p"]].st = "dead")
          /\ \A i \in DOMAIN events :
                events[i].kind = "read" =>
                    events[i] = Ev("read", "p", env["p"], "dead")
          /\ status = "returned" => \E i \in DOMAIN events :
                                       events[i].kind = "read"
    /\ (prog = "readme_main" /\ pc >= 7) =>
          (env["sp"] # NULL /\ heap[env["sp"]].st = "dead")

\* C30 witness: main has read p[0..4] from the dead array and gone on.
C30_Witness ==
    /\ prog = "stack_return"
    /\ status = "returned"
    /\ heap[1].st = "dead"
    /\ env["p"] = 1
    /\ events[Len(events)] = Ev("read", "p", 1, "dead")

\* The workflow has a NULL entry; FirstNull is the index (from 0) of the
\* first one.
HasNull == \E j \in 1..StepsSize : wf.steps[j] = NullFn
FirstNull ==
    (CHOOSE j \in 1..StepsSize :
        /\ wf.steps[j] = NullFn
        /\ \A k \in 1..(j - 1) : wf.steps[k] # NullFn) - 1

\* C26: runWorkflow calls the steps of the workflow in ascending index order
\* from index 0, each once and each with the context it was given, and a
\* NULL entry is never called; when the workflow has a NULL entry, nothing
\* at or after the first one is called, and runWorkflow returns having
\* called exactly the steps before it (for {step_add, step_sub, NULL}:
\* step_add, then step_sub, then the return).
C26_StepsInOrderUntilNull ==
    prog = "workflow" =>
        /\ \A k \in DOMAIN wf.log :
              /\ wf.log[k].idx = k - 1
              /\ wf.log[k].ctx = wf.ctx
              /\ k <= StepsSize =>
                    /\ wf.log[k].step = wf.steps[k]
                    /\ wf.log[k].step # NullFn
                    /\ wf.log[k].out = Perform(wf.steps[k], wf.ctx)
        /\ HasNull =>
              /\ Len(wf.log) <= FirstNull
              /\ status # "crashed"
              /\ status = "returned" => Len(wf.log) = FirstNull
        /\ (wf.steps = CalcSteps /\ status = "returned") =>
              /\ Len(wf.log) = 2
              /\ wf.log[1].step = "step_add"
              /\ wf.log[2].step = "step_sub"

\* C26 witness: main's workflow on ctx = {10, 4} has returned after
\* step_add (sum 14) and step_sub (difference 6).
C26_Witness ==
    /\ prog = "workflow"
    /\ status = "returned"
    /\ wf.steps = CalcSteps
    /\ wf.ctx = [num2 |-> 10, num3 |-> 4]
    /\ Len(wf.log) = 2
    /\ wf.log[1].out = 14
    /\ wf.log[2].out = 6

\* C27: runWorkflow reads no steps[i] with i >= 3 and does not crash,
\* whatever the workflow holds.
C27_NoReadPastSteps ==
    prog = "workflow" =>
        /\ \A k \in DOMAIN wf.reads : wf.reads[k] < StepsSize
        /\ status # "crashed"

\* C29: the block allocateArray_heap obtains has size * sizeof(int) bytes,
\* and every element its fill loop writes lies inside the block.
C29_ByteCountCoversFill ==
    prog = "alloc_sized" =>
        /\ (pc >= 2 /\ pc <= 5 /\ env["arr"] # NULL) =>
              heap[env["arr"]].bytes = arg.size * SizeofInt
        /\ \A i \in DOMAIN events :
              events[i].kind = "write" => events[i].why = "ok"

====
